---- MODULE Spec2Model ----
(***************************************************************************)
(* Model of the progression engine of src/main.py (mentor_router): the     *)
(* start/resume, next and chat handlers for one (student, chapter), each   *)
(* handler one atomic action made of its store calls in source order.      *)
(* The stored procedures the handlers call are not part of src/; they are  *)
(* modelled from the call contracts of the specification (sections 3, 4.3  *)
(* and 6).  Every store or generation call may raise; the input `fail`     *)
(* names the source line of the call that raises (0 = none).               *)
(*                                                                         *)
(* src/main.py has indentation slips (lines 107-137, 181); the handlers    *)
(* are read with the block structure their statements imply: 107-137 lie   *)
(* inside the try of 74, 181 is the elif of the if of 73, and 276-313 is   *)
(* unreachable because both paths of the try of 182 return.                *)
(***************************************************************************)
EXTENDS Integers, Sequences, FiniteSets, TLC

VARIABLES types, content, pointer, trackers, doubts,
          op, failed, resp, log, terminal, hist, req

vars == <<types, content, pointer, trackers, doubts, op, failed, resp, log, terminal, hist, req>>

\* ---------------------------------------------------------------- bounds
MaxPhases == 2
MaxItems == 2
MaxDoubts == 1

\* ------------------------------------------------------- values and rows
None == 0

\* raw phase_type labels; "NULL" is a row whose phase_type is null (None)
RawTypes == {"concept", "media", "flashcard", "conversation", "mcq", "Flashcards", "NULL"}

\* phase_content by shape: the PhaseStore supplies an array for mcq and an
\* object for every other type; n is the number of sub-items it holds
PhaseContent(t, n) == [shape |-> IF t \in {"mcq", "MCQ"} THEN "array" ELSE "object", n |-> n]

EmptyDict == [shape |-> "empty", n |-> 0]

NoData == [shape |-> "none", n |-> 0]

\* Python truthiness of phase_content: an empty list and {} are falsy
Truthy(c) == ~(c.shape = "array" /\ c.n = 0) /\ c.shape # "empty" /\ c.shape # "none"

\* phase.get("phase_content") or {}
OrEmptyDict(c) == IF Truthy(c) THEN c ELSE EmptyDict

\* the row get_phase_content returns for position p
PhaseRow(p) ==
  [phase_id |-> p, react_order |-> p, phase_type |-> types[p],
   phase_content |-> content[p], current |-> p, total |-> Len(types)]

\* ------------------------------------------ stored procedures (contract)
get_pointer_status == pointer

get_phase_content(p_react_order, p_is_completed) ==
  LET p == IF p_react_order = None THEN 1
           ELSE IF p_is_completed = "true" THEN p_react_order + 1
           ELSE p_react_order
  IN IF p \in 1..Len(types) THEN <<PhaseRow(p)>> ELSE <<>>

update_pointer_status(ptr, p_react_order) ==
  IF ptr # <<>> /\ ptr[1].react_order = p_react_order THEN ptr
  ELSE <<[react_order |-> p_react_order, is_completed |-> FALSE]>>

complete_pointer_status(ptr, p_react_order) ==
  IF ptr # <<>> /\ ptr[1].react_order = p_react_order
  THEN <<[react_order |-> p_react_order, is_completed |-> TRUE]>>
  ELSE ptr

\* update_local_tracker_status called with index, total and meta
initTracker(trk, p_phase_id, p_total, p_meta) ==
  [trk EXCEPT ![p_phase_id] =
     <<[current_index |-> 0, total |-> p_total, meta |-> p_meta, is_completed |-> FALSE]>>]

\* update_local_tracker_status called without an index
advanceTracker(trk, p_phase_id) ==
  IF trk[p_phase_id] = <<>> THEN trk
  ELSE LET t == trk[p_phase_id][1]
           i == IF t.current_index < t.total THEN t.current_index + 1 ELSE t.current_index
       IN [trk EXCEPT ![p_phase_id] =
             <<[t EXCEPT !.current_index = i,
                         !.is_completed = (t.is_completed \/ i >= t.total)]>>]

get_local_tracker_status(trk, p_phase_id) == trk[p_phase_id]

\* ------------------------------------------------------------- responses
NoResp == [kind |-> "none", type |-> "", data |-> NoData, phase_id |-> 0,
           current |-> 0, total |-> 0, text |-> ""]

Error(msg) == [NoResp EXCEPT !.kind = "error", !.text = msg]

Message(msg) == [NoResp EXCEPT !.kind = "message", !.text = msg]

Reply(r) == [NoResp EXCEPT !.kind = "reply", !.text = r]

Call(site, rpc, flag, rows) == [site |-> site, rpc |-> rpc, flag |-> flag, rows |-> rows]

Flag(b) == IF b THEN "true" ELSE "false"

\* phase.get("phase_type", "concept"): the default is used only for a row
\* without the key ("ABSENT"); a null or empty value is returned as it is
GetType(row) == IF row.phase_type = "ABSENT" THEN "concept" ELSE row.phase_type

\* { **phase_json, "phase_id": ... } plus current/total for concept;
\* unpacking a list raises TypeError
Payload(row, lead) ==
  LET phase_type == GetType(row)
      phase_json == OrEmptyDict(row.phase_content)
  IN IF phase_json.shape = "array"
     THEN Error("'list' object is not a mapping")
     ELSE [kind |-> "payload", type |-> phase_type, data |-> phase_json,
           phase_id |-> row.phase_id,
           current |-> IF phase_type = "concept" THEN row.current ELSE 0,
           total |-> IF phase_type = "concept" THEN row.total ELSE 0,
           text |-> lead]

Out(ptr, trk, r, l, raised, inited) ==
  [pointer |-> ptr, trackers |-> trk, resp |-> r, log |-> l,
   raised |-> raised, inited |-> inited]

\* the try of start/resume opened only after the two fetches
TrySpans_LateTry == {<<96, 174>>, <<182, 272>>, <<322, 341>>}

\* the try blocks of the three handlers, as <<line of try, line of except>>
TrySpans == {<<74, 174>>, <<182, 272>>, <<322, 341>>}

Covered(site) == \E span \in TrySpans : span[1] < site /\ site < span[2]

\* an exception escaping the handler ends the request without a response body
Crash == [NoResp EXCEPT !.kind = "crash"]

\* the call at the end of log l raised: except Exception -> {"error": str(e)}
Raised(ptr, trk, l) ==
  Out(ptr, trk, IF Covered(l[Len(l)].site) THEN Error("exception") ELSE Crash, l, TRUE, FALSE)

\* a call that raised is logged with rows = -1
RaisedCall(site, rpc, flag) == Call(site, rpc, flag, -1)

\* ------------------------------------------------ start / resume (73-176)
\* steps 2.5 to 4 (lines 96-172) for the fetched phase row
StartPhase(phase, l2, fail) ==
  LET phase_type == phase.phase_type
      phase_json == OrEmptyDict(phase.phase_content)
      compound == phase_type \in {"conversation", "mcq"}
      site == IF phase_type = "conversation" THEN 109 ELSE 125
      total == IF phase_type = "conversation"
               THEN (IF phase_json.shape = "object" THEN phase_json.n ELSE 0)
               ELSE (IF phase_json.shape = "array" THEN phase_json.n ELSE 0)
      trk1 == IF compound
              THEN initTracker(trackers, phase.phase_id, total, phase_json)
              ELSE trackers
      l3 == IF compound
            THEN Append(l2, Call(site, "update_local_tracker_status", "false", 1))
            ELSE l2
      react_order == phase.react_order
      ptr1 == update_pointer_status(pointer, react_order)
      l4 == Append(l3, Call(141, "update_pointer_status", "", 1))
  IN IF phase_type = "conversation" /\ phase_json.shape = "array"
     THEN Out(pointer, trackers, Error("'list' object has no attribute 'get'"), l2, FALSE, FALSE)
     ELSE IF compound /\ fail = site
     THEN Raised(pointer, trackers, Append(l2, RaisedCall(site, "update_local_tracker_status", "false")))
     ELSE IF fail = 141
     THEN Raised(pointer, trk1, Append(l3, RaisedCall(141, "update_pointer_status", "")))
     ELSE Out(ptr1, trk1, Payload(phase, "Starting"), l4, FALSE, compound)

\* resume restarts from the top unless the stored phase is completed
ResumeFrom_Restart(pointer_res) ==
  IF pointer_res # <<>> /\ pointer_res[1].is_completed
  THEN pointer_res[1].react_order ELSE None

\* line 82: the position the phase fetch of start/resume is made for
ResumeFrom(pointer_res) ==
  IF pointer_res # <<>> THEN pointer_res[1].react_order ELSE None

StartResume(fail) ==
  LET pointer_res == get_pointer_status
      react_order == ResumeFrom(pointer_res)
      is_completed == IF pointer_res # <<>> THEN Flag(pointer_res[1].is_completed) ELSE "none"
      l1 == <<Call(76, "get_pointer_status", "", Len(pointer_res))>>
      phase_res == get_phase_content(react_order, is_completed)
      l2 == Append(l1, Call(86, "get_phase_content", is_completed, Len(phase_res)))
  IN IF fail = 76
     THEN Raised(pointer, trackers, <<RaisedCall(76, "get_pointer_status", "")>>)
     ELSE IF fail = 86
     THEN Raised(pointer, trackers, Append(l1, RaisedCall(86, "get_phase_content", is_completed)))
     ELSE IF phase_res = <<>>
     THEN Out(pointer, trackers, Error("No phase content found"), l2, FALSE, FALSE)
     ELSE StartPhase(phase_res[1], l2, fail)

\* ----------------------------------------------------------- next (181-274)
\* a successor fetch that raises takes the pointer back to what the request
\* found
NextSuccessor_Rollback(ptr, trk, react_order, l, fail) ==
  LET next_phase == get_phase_content(react_order, "true")
      l5 == Append(l, Call(244, "get_phase_content", "true", Len(next_phase)))
  IN IF fail = 244
     THEN Raised(pointer, trk, Append(l, RaisedCall(244, "get_phase_content", "true")))
     ELSE IF next_phase = <<>>
     THEN Out(ptr, trk, Message("Chapter completed"), l5, FALSE, FALSE)
     ELSE Out(ptr, trk, Payload(next_phase[1], "Next"), l5, FALSE, FALSE)

\* step 3 and 4 (lines 243-270): successor fetch and payload
NextSuccessor(ptr, trk, react_order, l, fail) ==
  LET next_phase == get_phase_content(react_order, "true")
      l5 == Append(l, Call(244, "get_phase_content", "true", Len(next_phase)))
  IN IF fail = 244
     THEN Raised(ptr, trk, Append(l, RaisedCall(244, "get_phase_content", "true")))
     ELSE IF next_phase = <<>>
     THEN Out(ptr, trk, Message("Chapter completed"), l5, FALSE, FALSE)
     ELSE Out(ptr, trk, Payload(next_phase[1], "Next"), l5, FALSE, FALSE)

\* promotes as soon as a tracker row exists
Promote_Always(tracker_check) == tracker_check # <<>>

\* lines 234-235: tracker and tracker.get("is_completed")
Promote(tracker_check) == tracker_check # <<>> /\ tracker_check[1].is_completed

\* step 2 (lines 207-241): phase branching logic
NextBranch(phase, react_order, l2, fail) ==
  LET phase_type == phase.phase_type
      phase_id == phase.phase_id
      ptrC == complete_pointer_status(pointer, react_order)
      trk1 == advanceTracker(trackers, phase_id)
      l3 == Append(l2, Call(219, "update_local_tracker_status", "false", 1))
      tracker_check == get_local_tracker_status(trk1, phase_id)
      l4 == Append(l3, Call(229, "get_local_tracker_status", "", Len(tracker_check)))
      promote == Promote(tracker_check)
  IN IF phase_type \in {"concept", "media", "flashcard"}
     THEN IF fail = 210
          THEN Raised(pointer, trackers, Append(l2, RaisedCall(210, "complete_pointer_status", "")))
          ELSE NextSuccessor(ptrC, trackers, react_order,
                             Append(l2, Call(210, "complete_pointer_status", "", 1)), fail)
     ELSE IF phase_type \in {"conversation", "mcq"}
     THEN IF fail = 219
          THEN Raised(pointer, trackers, Append(l2, RaisedCall(219, "update_local_tracker_status", "false")))
          ELSE IF fail = 229
          THEN Raised(pointer, trk1, Append(l3, RaisedCall(229, "get_local_tracker_status", "")))
          ELSE IF promote
          THEN IF fail = 237
               THEN Raised(pointer, trk1, Append(l4, RaisedCall(237, "complete_pointer_status", "")))
               ELSE NextSuccessor(ptrC, trk1, react_order,
                                  Append(l4, Call(237, "complete_pointer_status", "", 1)), fail)
          ELSE NextSuccessor(pointer, trk1, react_order, l4, fail)
     ELSE NextSuccessor(pointer, trackers, react_order, l2, fail)

\* the current phase is fetched with the pointer's own completion flag
CurrentFlag_FromPointer(pointer_res) == Flag(pointer_res[1].is_completed)

\* line 197: "p_is_completed": False
CurrentFlag(pointer_res) == "false"

\* a missing current phase is reported as the end of the chapter
NoCurrentPhase_AsCompleted == Message("Chapter completed")

\* line 201
NoCurrentPhase == Error("No current phase found")

NextFlow(fail) ==
  LET pointer_res == get_pointer_status
      l1 == <<Call(184, "get_pointer_status", "", Len(pointer_res))>>
      react_order == pointer_res[1].react_order
      flag == CurrentFlag(pointer_res)
      phase_res == get_phase_content(react_order, flag)
      l2 == Append(l1, Call(194, "get_phase_content", flag, Len(phase_res)))
  IN IF fail = 184
     THEN Raised(pointer, trackers, <<RaisedCall(184, "get_pointer_status", "")>>)
     ELSE IF pointer_res = <<>>
     THEN Out(pointer, trackers, Error("No pointer found"), l1, FALSE, FALSE)
     ELSE IF fail = 194
     THEN Raised(pointer, trackers, Append(l1, RaisedCall(194, "get_phase_content", "false")))
     ELSE IF phase_res = <<>>
     THEN Out(pointer, trackers, NoCurrentPhase, l2, FALSE, FALSE)
     ELSE NextBranch(phase_res[1], react_order, l2, fail)

\* ------------------------------------------------ chat / ask_doubt (318-343)
ChatOut(d, r, l, raised) == [doubts |-> d, resp |-> r, log |-> l, raised |-> raised]

ChatRaised(l) ==
  ChatOut(doubts, IF Covered(l[Len(l)].site) THEN Error("exception") ELSE Crash, l, TRUE)

\* chat first looks the student's pointer up
ChatFlow_ReadsPointer(q, fail) ==
  LET l0 == <<Call(324, "get_pointer_status", "", Len(pointer))>>
      l1 == Append(l0, Call(324, "chat.completions.create", "", 1))
      l2 == Append(l1, Call(332, "student_doubts.insert", "", 1))
  IN IF q = ""
     THEN ChatOut(doubts, Error("No question provided"), <<>>, FALSE)
     ELSE IF fail = 324
     THEN ChatRaised(Append(l0, RaisedCall(324, "chat.completions.create", "")))
     ELSE IF fail = 332
     THEN ChatRaised(Append(l1, RaisedCall(332, "student_doubts.insert", "")))
     ELSE ChatOut(doubts + 1, Reply("reply"), l2, FALSE)

ChatFlow(q, fail) ==
  LET l1 == <<Call(324, "chat.completions.create", "", 1)>>
      l2 == Append(l1, Call(332, "student_doubts.insert", "", 1))
  IN IF q = ""
     THEN ChatOut(doubts, Error("No question provided"), <<>>, FALSE)
     ELSE IF fail = 324
     THEN ChatRaised(<<RaisedCall(324, "chat.completions.create", "")>>)
     ELSE IF fail = 332
     THEN ChatRaised(Append(l1, RaisedCall(332, "student_doubts.insert", "")))
     ELSE ChatOut(doubts + 1, Reply("reply"), l2, FALSE)

\* ---------------------------------------------------------------- actions
StartSites == {0, 76, 86, 109, 125, 141}

NextSites == {0, 184, 194, 210, 219, 229, 237, 244}

ChatSites == {0, 324, 332}

Questions == {"", "why"}

StartCore(fail) ==
  LET o == StartResume(fail)
  IN /\ fail # 0 => o.raised
     /\ pointer' = o.pointer
     /\ trackers' = o.trackers
     /\ resp' = o.resp
     /\ log' = o.log
     /\ op' = "start"
     /\ failed' = fail
     /\ req' = [req EXCEPT !.question = ""]
     /\ UNCHANGED <<types, content, doubts, terminal>>

NextCore(fail) ==
  LET o == NextFlow(fail)
  IN /\ fail # 0 => o.raised
     /\ pointer' = o.pointer
     /\ trackers' = o.trackers
     /\ resp' = o.resp
     /\ log' = o.log
     /\ op' = "next"
     /\ failed' = fail
     /\ terminal' = (terminal \/ o.resp.kind = "message")
     /\ req' = [req EXCEPT !.question = ""]
     /\ UNCHANGED <<types, content, doubts>>

Start(fail) == StartCore(fail) /\ UNCHANGED hist

NextIntent(fail) == NextCore(fail) /\ UNCHANGED hist

Chat(q, fail) ==
  LET o == ChatFlow(q, fail)
  IN /\ fail # 0 => o.raised
     /\ o.doubts <= MaxDoubts
     /\ doubts' = o.doubts
     /\ resp' = o.resp
     /\ log' = o.log
     /\ op' = "chat"
     /\ failed' = fail
     /\ req' = [req EXCEPT !.question = q]
     /\ UNCHANGED <<types, content, pointer, trackers, terminal, hist>>

\* the PhaseStore's content for the phase in progress changes between two
\* requests (a change to a phase not yet fetched is a different Init)
ContentChanges(p, n) ==
  /\ p \in 1..Len(types)
  /\ pointer # <<>> /\ pointer[1].react_order = p /\ ~pointer[1].is_completed
  /\ trackers[p] # <<>>
  /\ content[p].n # n
  /\ content' = [content EXCEPT ![p] = PhaseContent(types[p], n)]
  /\ op' = "content"
  /\ failed' = 0
  /\ resp' = NoResp
  /\ log' = <<>>
  /\ UNCHANGED <<types, pointer, trackers, doubts, terminal, hist, req>>

\* the PhaseStore drops the last phase of the chapter
PhaseRemoved ==
  /\ Len(types) > 0
  /\ types' = SubSeq(types, 1, Len(types) - 1)
  /\ content' = SubSeq(content, 1, Len(content) - 1)
  /\ op' = "removed"
  /\ failed' = 0
  /\ UNCHANGED <<pointer, trackers, doubts, resp, log, terminal, hist, req>>

Chapters == UNION {[1..k -> RawTypes] : k \in 0..MaxPhases}

\* nothing stored yet, no request handled yet
InitStores ==
  /\ pointer = <<>>
  /\ trackers = [p \in 1..(MaxPhases + 1) |-> <<>>]
  /\ doubts = 0
  /\ op = "init"
  /\ failed = 0
  /\ resp = NoResp
  /\ log = <<>>
  /\ terminal = FALSE
  /\ hist = <<>>

\* the fields of the payload the handlers read (lines 63-65, 319); the ids
\* are those of the one (student, chapter) the behaviour is about, "None"
\* when the payload lacks the field
WellFormed == [user_id |-> "u1", chapter_id |-> "c1", question |-> ""]

\* nothing stored yet for the (student, chapter), no request handled yet
InitEngine ==
  /\ req = WellFormed
  /\ InitStores

Init ==
  /\ types \in Chapters
  /\ content \in [1..Len(types) -> [shape : {"object", "array"}, n : 0..MaxItems]]
  /\ \A p \in 1..Len(types) :
       /\ content[p] = PhaseContent(types[p], content[p].n)
       /\ types[p] \notin {"conversation", "mcq"} => content[p].n = 1
  /\ InitEngine

\* requests whose store calls all succeed, over a PhaseStore whose content
\* may change
Next ==
  \/ Start(0)
  \/ NextIntent(0)
  \/ \E p \in 1..MaxPhases, n \in 0..MaxItems : ContentChanges(p, n)

Spec == Init /\ [][Next]_vars

\* all three intents, any store or generation call of which may raise
NextFail ==
  \/ \E fail \in StartSites : Start(fail)
  \/ \E fail \in NextSites : NextIntent(fail)
  \/ \E q \in Questions, fail \in ChatSites : Chat(q, fail)

SpecFail == Init /\ [][NextFail]_vars

\* requests over a PhaseStore that may drop phases
NextStore ==
  \/ Start(0)
  \/ NextIntent(0)
  \/ PhaseRemoved

SpecStore == Init /\ [][NextStore]_vars

\* raw labels in other spellings, the empty label and the missing key
Labels == RawTypes \cup {"FLASHCARDS", "MCQ", "", "ABSENT"}

InitLabels ==
  /\ types \in UNION {[1..k -> Labels] : k \in 0..MaxPhases}
  /\ content \in [1..Len(types) -> [shape : {"object", "array"}, n : 0..MaxItems]]
  /\ \A p \in 1..Len(types) :
       /\ content[p] = PhaseContent(types[p], content[p].n)
       /\ types[p] \notin {"conversation", "mcq", "MCQ"} => content[p].n = 1
  /\ InitEngine

\* requests over chapters whose phases carry any of the labels
NextLabels ==
  \/ Start(0)
  \/ NextIntent(0)

SpecLabels == InitLabels /\ [][NextLabels]_vars

\* lines 57-63: a body that is not JSON is answered with an error; a JSON
\* body that is not an object makes data.get raise outside any try
BadPayload(kind) ==
  /\ op' = "invalid"
  /\ resp' = IF kind = "not json" THEN Error("Invalid JSON payload") ELSE Crash
  /\ log' = <<>>
  /\ failed' = 0
  /\ req' = [req EXCEPT !.question = ""]
  /\ UNCHANGED <<types, content, pointer, trackers, doubts, terminal, hist>>

\* the requests of a client whose payloads may lack user_id or chapter_id;
\* the PhaseStore holds no phase for a null chapter
InitRequest ==
  /\ req \in [user_id : {"None", "u1"}, chapter_id : {"None", "c1"}, question : {""}]
  /\ types \in Chapters
  /\ req.chapter_id = "None" => types = <<>>
  /\ content \in [1..Len(types) -> [shape : {"object", "array"}, n : 0..MaxItems]]
  /\ \A p \in 1..Len(types) :
       /\ content[p] = PhaseContent(types[p], content[p].n)
       /\ types[p] \notin {"conversation", "mcq"} => content[p].n = 1
  /\ InitStores

NextRequest ==
  \/ Start(0)
  \/ NextIntent(0)
  \/ \E q \in Questions : Chat(q, 0)
  \/ \E kind \in {"not json", "not object"} : BadPayload(kind)

SpecRequest == InitRequest /\ [][NextRequest]_vars

\* the chapter of the worked example: [concept(1), mcq(2, 3 items), flashcard(3)]
ExampleTypes == <<"concept", "mcq", "flashcard">>

ExampleItems == <<1, 3, 1>>

ExampleScript == <<"start", "next", "next", "next", "next", "next", "next">>

InitExample ==
  /\ types = ExampleTypes
  /\ content = [p \in 1..Len(ExampleTypes) |-> PhaseContent(ExampleTypes[p], ExampleItems[p])]
  /\ InitEngine

ExampleStart ==
  /\ Len(hist) < Len(ExampleScript)
  /\ StartCore(0)
  /\ hist' = Append(hist, [op |-> "start", resp |-> resp'])

ExampleNext ==
  /\ Len(hist) < Len(ExampleScript)
  /\ NextCore(0)
  /\ hist' = Append(hist, [op |-> "next", resp |-> resp'])

\* any sequence of at most Len(ExampleScript) requests on the example chapter
NextExample ==
  \/ ExampleStart
  \/ ExampleNext

SpecExample == InitExample /\ [][NextExample]_vars

\* ------------------------------------------------------------ properties
HasPointer == pointer # <<>>

Cur == pointer[1].react_order

Pos(ptr) == IF ptr = <<>> THEN 0 ELSE ptr[1].react_order

Compound(p) == p \in 1..Len(types) /\ types[p] \in {"conversation", "mcq"}

LastCall(l) == l[Len(l)]

\* the step relation of C1
C1_Step ==
  (/\ op' = "next" /\ failed' = 0
   /\ HasPointer /\ Compound(Cur) /\ trackers[Cur] # <<>>
   /\ trackers[Cur][1].total >= 1)
  => LET t == trackers[Cur][1]
         N == t.total
         k == t.current_index
     IN /\ k < N => /\ ~pointer[1].is_completed
                    /\ trackers'[Cur][1].current_index = k + 1
                    /\ pointer'[1].is_completed <=> (k + 1 = N)
        /\ k = N => /\ pointer[1].is_completed
                    /\ trackers' = trackers
                    /\ LastCall(log').rpc = "get_phase_content"
                    /\ LastCall(log').flag = "true"

C2_Step ==
  (/\ op = "start" /\ failed = 0 /\ log[1].rows = 0
   /\ op' = "start" /\ failed' = 0)
  => /\ resp'.kind = resp.kind
     /\ resp'.type = resp.type
     /\ resp'.data = resp.data
     /\ resp'.phase_id = resp.phase_id
     /\ \A i \in 1..Len(log') : log'[i].rpc # "update_local_tracker_status"

\* C2 (idempotent resume): when start/resume is called twice in a row for a
\* fresh chapter, the second call returns the same type and data as the
\* first and makes no tracker initialisation write.
C2_IdempotentResume == [][C2_Step]_vars

\* the step relation of C3
C3_Step ==
  (/\ op' = "start" /\ failed' = 0
   /\ HasPointer /\ ~pointer[1].is_completed /\ Compound(Cur)
   /\ trackers[Cur] # <<>>
   /\ 0 < trackers[Cur][1].current_index
   /\ trackers[Cur][1].current_index < trackers[Cur][1].total)
  => /\ trackers'[Cur] # <<>>
     /\ trackers'[Cur][1].current_index = trackers[Cur][1].current_index
     /\ trackers'[Cur][1].is_completed = trackers[Cur][1].is_completed

\* C3 (resume never resets sub-progress): a start/resume made while a
\* compound phase is current with a tracker at 0 < currentIndex < totalItems
\* leaves that tracker's currentIndex and isCompleted unchanged.
C3_ResumeKeepsIndex == [][C3_Step]_vars

\* C4 (monotonic position): no step of any start/resume or next request,
\* failing or not, decreases the pointer's position.
C4_MonotonicPosition == [][Pos(pointer') >= Pos(pointer)]_vars

\* a start/resume has moved the pointer past the first position
C4_Witness == HasPointer /\ Cur >= 2 /\ op = "start" /\ failed = 0

\* the step relation of C5
C5_Step ==
  (/\ op' = "next" /\ failed' = 0
   /\ Len(log') >= 2 /\ log'[1].rows = 1 /\ log'[2].rows = 1)
  => \/ \E p \in DOMAIN trackers :
          /\ trackers[p] # <<>> /\ trackers'[p] # <<>>
          /\ trackers'[p][1].current_index > trackers[p][1].current_index
     \/ ~pointer[1].is_completed /\ pointer'[1].is_completed
     \/ Pos(pointer') > Pos(pointer)

\* C5 (progress of next): every next that finds a pointer and a current
\* phase increases some tracker's currentIndex, or completes the pointer, or
\* increases its position.
C5_NextProgress == [][C5_Step]_vars

\* the step relation of C6
C6_Step ==
  (/\ op' = "start" /\ failed' = 0
   /\ HasPointer /\ ~pointer[1].is_completed /\ Compound(Cur)
   /\ trackers[Cur] # <<>> /\ ~trackers[Cur][1].is_completed
   /\ resp'.kind = "payload")
  => /\ resp'.phase_id = Cur
     /\ resp'.data = trackers[Cur][1].meta

\* C6 (cache fidelity): a start/resume made while a compound phase is
\* current with an initialised, uncompleted tracker of content C returns, if
\* it returns a payload, data equal to C, whatever the PhaseStore now holds.
C6_CacheFidelity == [][C6_Step]_vars

\* the step relation of C7
C7_Step == (terminal /\ op' = "next") => resp'.kind = "message"

\* C7 (terminal state): once a next has returned "chapter completed", every
\* further next returns "chapter completed" (so none carries a phase payload).
C7_TerminalState == [][C7_Step]_vars

\* the last phase is compound: its first next already reported the end of
\* the chapter, and further next calls have since taken its tracker to 2
C7_Witness ==
  /\ terminal /\ op = "next" /\ resp.kind = "message"
  /\ HasPointer /\ Cur = Len(types) /\ Compound(Cur)
  /\ trackers[Cur] # <<>> /\ trackers[Cur][1].current_index >= 2

\* the requests so far are a prefix of the example script
OnScript == Len(hist) >= 1 /\ \A i \in 1..Len(hist) : hist[i].op = ExampleScript[i]

\* C8 (worked example): on [concept(1), mcq(2, 3 items), flashcard(3)] the
\* requests start, next x 6 give: concept; mcq with a tracker at totalItems 3
\* and currentIndex 0; the tracker completed and the pointer promoted by the
\* third of the next three calls; flashcard; "chapter completed".
C8_WorkedExample ==
  OnScript =>
    /\ hist[1].resp.kind = "payload" /\ hist[1].resp.type = "concept"
    /\ hist[1].resp.current = 1 /\ hist[1].resp.total = 3
    /\ Len(hist) >= 2 => hist[2].resp.kind = "payload" /\ hist[2].resp.type = "mcq"
    /\ Len(hist) = 2 => /\ trackers[2] # <<>>
                        /\ trackers[2][1].total = 3
                        /\ trackers[2][1].current_index = 0
    /\ Len(hist) \in {3, 4} => trackers[2] # <<>> /\ ~trackers[2][1].is_completed
    /\ Len(hist) = 5 => /\ trackers[2] # <<>> /\ trackers[2][1].is_completed
                        /\ HasPointer /\ Cur = 2 /\ pointer[1].is_completed
    /\ Len(hist) >= 6 => hist[6].resp.kind = "payload" /\ hist[6].resp.type = "flashcard"
    /\ Len(hist) >= 7 => hist[7].resp.kind = "message"

\* the store calls that write nothing
Reads == {"get_pointer_status", "get_phase_content", "get_local_tracker_status"}

NotFound(l) ==
  \/ l[1].site = 184 /\ l[1].rows = 0
  \/ Len(l) >= 2 /\ l[2].site \in {86, 194} /\ l[2].rows = 0

C9_Step ==
  (op' \in {"start", "next"} /\ failed' = 0 /\ NotFound(log'))
  => /\ resp'.kind = "error"
     /\ \A i \in 1..Len(log') : log'[i].rpc \in Reads
     /\ pointer' = pointer
     /\ trackers' = trackers

\* C9 (not-found is not exhaustion): a next that gets no pointer row or no
\* current phase, and a start/resume whose phase fetch gets no row, answer
\* with an error and make no pointer or tracker write.
C9_NotFound == [][C9_Step]_vars

\* a next found a pointer whose position no longer holds a phase
C9_Witness ==
  /\ op = "next" /\ failed = 0 /\ Len(log) = 2 /\ log[2].rows = 0
  /\ resp.kind = "error" /\ HasPointer

\* C10 (collaborator failure is contained): whichever store or generation
\* call of whichever handler raises, the request answers with an error.
C10_FailureContained == failed # 0 => resp.kind = "error"

\* the successor fetch of next raised after the pointer was completed
C10_Witness ==
  /\ op = "next" /\ failed = 244 /\ resp.kind = "error"
  /\ HasPointer /\ pointer[1].is_completed

\* the last request lacked a field its intent requires, or had no usable body
Malformed ==
  \/ op = "invalid"
  \/ op \in {"start", "next"} /\ (req.user_id = "None" \/ req.chapter_id = "None")
  \/ op = "chat" /\ req.question = ""

\* C11 (malformed requests touch no store): a request with an unusable
\* payload, or without user_id or chapter_id (start/resume/next), or without
\* a question (chat), is answered with an error and makes no store or
\* generation call.
C11_MalformedNoStore == Malformed => (resp.kind = "error" /\ log = <<>>)

\* PhaseNormalizer: lower-casing of the labels in use
Lower(raw) ==
  CASE raw = "Flashcards" -> "flashcards"
    [] raw = "FLASHCARDS" -> "flashcards"
    [] raw = "MCQ" -> "mcq"
    [] OTHER -> raw

\* PhaseNormalizer: lower-case, "flashcards" -> "flashcard", absent or empty
\* -> "concept"
normalize(raw) ==
  IF raw \in {"", "NULL", "ABSENT"} THEN "concept"
  ELSE IF Lower(raw) = "flashcards" THEN "flashcard"
  ELSE Lower(raw)

\* C12 (normalization): the type of every start/resume and next payload is
\* normalize(raw type) of the phase it carries, and is never empty.
C12_Normalization ==
  (op \in {"start", "next"} /\ resp.kind = "payload")
  => /\ resp.type = normalize(types[resp.phase_id])
     /\ resp.type # ""

\* the generation call and the audit insert
ChatCalls == {"chat.completions.create", "student_doubts.insert"}

\* C13 (chat is stateless for progression): a chat / ask_doubt request,
\* succeeding or failing, makes no pointer or tracker call and leaves the
\* pointer and every tracker as they were.
C13_ChatStateless ==
  [][op' = "chat" => /\ pointer' = pointer
                     /\ trackers' = trackers
                     /\ \A i \in 1..Len(log') : log'[i].rpc \in ChatCalls]_vars

\* a doubt was answered in the middle of a compound phase
C13_Witness ==
  /\ op = "chat" /\ resp.kind = "reply" /\ Len(log) = 2
  /\ HasPointer /\ Compound(Cur) /\ trackers[Cur] # <<>>
  /\ trackers[Cur][1].current_index >= 1

\* C14 (promotion is the only completion path of a compound phase): when
\* the pointer is complete at a position whose phase is conversation or mcq,
\* that phase's tracker exists and is completed.
C14_PromotionOnly ==
  (HasPointer /\ pointer[1].is_completed /\ Compound(Cur))
  => (trackers[Cur] # <<>> /\ trackers[Cur][1].is_completed)

\* a next has just promoted: its log holds the complete_pointer_status call
\* of line 237, made after the tracker read
C14_Witness ==
  /\ op = "next" /\ failed = 0
  /\ HasPointer /\ pointer[1].is_completed /\ Compound(Cur)
  /\ trackers[Cur] # <<>> /\ trackers[Cur][1].is_completed
  /\ trackers[Cur][1].total >= 1
  /\ \E i \in 1..Len(log) : log[i].site = 237

\* the requests that C15, C16 and C18 speak of
Navigates == op' \in {"start", "next"}

\* the step relation of C15
C15_Step ==
  Navigates =>
    \A p \in DOMAIN trackers :
      trackers[p] # <<>> =>
        /\ trackers'[p] # <<>>
        /\ trackers'[p][1].current_index >= trackers[p][1].current_index
        /\ 0 <= trackers'[p][1].current_index
        /\ trackers'[p][1].current_index <= trackers'[p][1].total

\* C15 (tracker bounds): over any sequence of start/resume and next calls a
\* tracker's currentIndex never decreases and stays within 0..totalItems.
C15_TrackerBounds == [][C15_Step]_vars

\* the step relation of C16
C16_Step ==
  Navigates =>
    \A p \in DOMAIN trackers :
      trackers[p] # <<>> =>
        /\ trackers'[p] # <<>>
        /\ trackers'[p][1].meta = trackers[p][1].meta
        /\ trackers'[p][1].total = trackers[p][1].total

\* C16 (write-once snapshot): no start/resume or next call changes the
\* cachedMeta or totalItems of a tracker that already exists, also when the
\* PhaseStore has come to hold different content for the phase.
C16_SnapshotWriteOnce == [][C16_Step]_vars

\* the step relation of C17: the response comes from the successor fetch of
\* line 244
C17_Step ==
  (/\ op' = "next" /\ resp'.kind = "payload"
   /\ \E i \in 1..Len(log') : log'[i].site = 244)
  => Pos(pointer') = resp'.phase_id

\* C17 (next moves the pointer): when a next returns the payload of a
\* successor phase, the pointer's position after the call is the position of
\* the returned phase.
C17_NextMovesPointer == [][C17_Step]_vars

\* the tracker initialisations of lines 109 and 125
InitSites == {109, 125}

\* the step relation of C18
C18_Step ==
  (/\ Navigates /\ resp'.kind = "payload"
   /\ resp'.type \in {"conversation", "mcq"})
  => LET p == resp'.phase_id
     IN /\ trackers'[p] # <<>>
        /\ trackers[p] = <<>> => trackers'[p][1].current_index = 0
        /\ trackers[p] # <<>> => \A i \in 1..Len(log') : log'[i].site \notin InitSites

\* C18 (a tracker for every current compound phase): after a start/resume or
\* next whose response carries a conversation or mcq phase a tracker row
\* exists for that phase, at currentIndex 0 if the call created it, and a
\* phase that already has a tracker is not initialised again.
C18_TrackerForCurrent == [][C18_Step]_vars

\* calls of the last request's log, by position
Completes(l, i) == l[i].rpc = "complete_pointer_status" /\ l[i].rows = 1

\* the step relation of C19
C19_Step ==
  op' = "next" =>
    /\ \A i, j \in 1..Len(log') :
         (log'[i].rpc = "complete_pointer_status" /\ log'[j].site = 244) => i < j
    /\ (/\ failed' = 244
        /\ HasPointer /\ ~pointer[1].is_completed
        /\ \E i \in 1..Len(log') : Completes(log', i))
       => /\ resp'.kind = "error"
          /\ pointer' # <<>> /\ pointer'[1].is_completed
          /\ Pos(pointer') = Pos(pointer)

\* C19 (commit-then-fetch, no rollback): next marks the pointer complete
\* before it fetches the successor; when that fetch raises after the
\* completion was written the request answers {error} and the pointer stays
\* complete.
C19_CommitThenFetch == [][C19_Step]_vars

\* a compound phase was promoted at line 237 and the fetch of line 244 raised
C19_Witness ==
  /\ op = "next" /\ failed = 244 /\ resp.kind = "error"
  /\ Len(log) = 6 /\ Completes(log, 5) /\ log[5].site = 237
  /\ log[6].site = 244 /\ log[6].rows = -1
  /\ HasPointer /\ Compound(Cur) /\ pointer[1].is_completed

\* --------------------------- two overlapping next requests (183-251)
\* the store calls one next makes at most: 184, 194, 219, 229, 237, 244
OSteps == 6

\* a next request that has made no store call yet; pc is the line of the
\* store call it makes next, 0 once it has returned
Fresh == [pc |-> 184, pointer_res |-> <<>>, phase_res |-> <<>>, resp |-> NoResp]

\* both requests arrive over the same pointer and trackers
OBegin(ptr, trk) == [pointer |-> ptr, trackers |-> trk, r |-> [i \in 1..2 |-> Fresh]]

Returns(q, r) == [q EXCEPT !.pc = 0, !.resp = r]

\* request i makes its next store call, atomically, on the shared stores;
\* what it read before stays in its locals pointer_res and phase_res
OStep(st, i) ==
  LET q == st.r[i]
      react_order == q.pointer_res[1].react_order
      phase == q.phase_res[1]
      Local(q2) == [st EXCEPT !.r[i] = q2]
  IN CASE q.pc = 184 ->
            IF st.pointer = <<>>
            THEN Local(Returns(q, Error("No pointer found")))
            ELSE Local([q EXCEPT !.pc = 194, !.pointer_res = st.pointer])
       [] q.pc = 194 ->
            LET phase_res == get_phase_content(react_order, CurrentFlag(q.pointer_res))
            IN IF phase_res = <<>>
               THEN Local(Returns(q, NoCurrentPhase))
               ELSE Local([q EXCEPT
                      !.phase_res = phase_res,
                      !.pc = IF phase_res[1].phase_type \in {"concept", "media", "flashcard"}
                             THEN 210
                             ELSE IF phase_res[1].phase_type \in {"conversation", "mcq"}
                             THEN 219
                             ELSE 244])
       [] q.pc = 210 ->
            [st EXCEPT !.pointer = complete_pointer_status(st.pointer, react_order),
                       !.r[i].pc = 244]
       [] q.pc = 219 ->
            [st EXCEPT !.trackers = advanceTracker(st.trackers, phase.phase_id),
                       !.r[i].pc = 229]
       [] q.pc = 229 ->
            LET tracker_check == get_local_tracker_status(st.trackers, phase.phase_id)
            IN Local([q EXCEPT !.pc = IF Promote(tracker_check) THEN 237 ELSE 244])
       [] q.pc = 237 ->
            [st EXCEPT !.pointer = complete_pointer_status(st.pointer, react_order),
                       !.r[i].pc = 244]
       [] q.pc = 244 ->
            LET next_phase == get_phase_content(react_order, "true")
            IN IF next_phase = <<>>
               THEN Local(Returns(q, Message("Chapter completed")))
               ELSE Local(Returns(q, Payload(next_phase[1], "Next")))
       [] OTHER -> st

\* request i alone, for k store calls
RECURSIVE OSolo(_, _, _)
OSolo(st, i, k) == IF k = 0 THEN st ELSE OSolo(OStep(st, i), i, k - 1)

\* everything the two requests can have done after at most k store calls,
\* taken in any order
RECURSIVE OReach(_, _)
OReach(S, k) ==
  IF k = 0 THEN S
  ELSE OReach(S \cup {OStep(st, i) : st \in S, i \in 1..2}, k - 1)

Returned(st) == \A i \in 1..2 : st.r[i].pc = 0

\* what is left of two requests: the stores and the two responses
Outcome(st) ==
  [pointer |-> st.pointer, trackers |-> st.trackers,
   resp |-> [i \in 1..2 |-> st.r[i].resp]]

\* the outcomes of all interleavings of two next requests from this state
OverlapOutcomes ==
  {Outcome(st) : st \in {s \in OReach({OBegin(pointer, trackers)}, 2 * OSteps) : Returned(s)}}

\* the outcomes of the two sequential orders
SeqOutcomes ==
  LET st == OBegin(pointer, trackers)
  IN {Outcome(OSolo(OSolo(st, 1, OSteps), 2, OSteps)),
      Outcome(OSolo(OSolo(st, 2, OSteps), 1, OSteps))}

\* two next requests overlap; client i's response is the one observed
Overlap(i) ==
  \E o \in OverlapOutcomes :
    /\ pointer' = o.pointer
    /\ trackers' = o.trackers
    /\ resp' = o.resp[i]
    /\ log' = <<>>
    /\ op' = "overlap"
    /\ failed' = 0
    /\ terminal' = (terminal \/ \E j \in 1..2 : o.resp[j].kind = "message")
    /\ req' = [req EXCEPT !.question = ""]
    /\ UNCHANGED <<types, content, doubts, hist>>

\* single and overlapping requests whose store calls all succeed
NextOverlap ==
  \/ Start(0)
  \/ NextIntent(0)
  \/ \E i \in 1..2 : Overlap(i)

SpecOverlap == Init /\ [][NextOverlap]_vars

\* one request run call by call is the handler NextFlow
OSoloIsNextFlow ==
  LET st == OSolo(OBegin(pointer, trackers), 1, OSteps)
      o == NextFlow(0)
  IN /\ st.r[1].pc = 0
     /\ st.pointer = o.pointer /\ st.trackers = o.trackers
     /\ st.r[1].resp = o.resp

\* every interleaving ends as one of the two sequential orders does
OverlapSerializable == OverlapOutcomes \subseteq SeqOutcomes

\* the read-modify-write case: a compound phase is current and its tracker
\* has items left
MidCompound ==
  /\ HasPointer /\ ~pointer[1].is_completed /\ Compound(Cur)
  /\ trackers[Cur] # <<>> /\ ~trackers[Cur][1].is_completed

\* C20 (overlapping next is a hazard): two next requests interleaved at the
\* granularity of store calls have an interleaving whose final pointer and
\* trackers or whose pair of responses differ from those of both sequential
\* orders.
C20_OverlapHazard ==
  MidCompound => \E o \in OverlapOutcomes : o \notin SeqOutcomes

====
